---- MODULE Spec2Model ----
(***************************************************************************)
(* Batch job runner of whisper_gui_queue_full_pp_v3.py: the GUI thread     *)
(* (start, cancel, _poll_ui_queue), the background worker (_worker), the   *)
(* child transcription process it supervises, and the ui_queue between     *)
(* worker and GUI.                                                         *)
(*                                                                         *)
(* Floats are modelled as exact rationals <<num, den>> in lowest terms.    *)
(* Times are seconds; the clock takes the readings listed in Clock.        *)
(***************************************************************************)
EXTENDS Integers, Sequences, FiniteSets, TLC

\* ------------------------------------------------------------- bounds
\* A behaviour is one of: one estimated-progress run over up to MaxFiles
\* files; one real-progress run over up to two files whose children write
\* one unit of output in all; one real-progress run over one file whose child
\* writes up to MaxOut units and that nobody cancels; up to MaxRuns
\* estimated-progress runs over one file; one estimated-progress run with two
\* edits of the queue before, during or after it.
MaxFiles == 2
MaxOut == 4
MaxRuns == 2

\* ---------------------------------------------------------- rationals
RECURSIVE GCD(_, _)
GCD(a, b) == IF b = 0 THEN a ELSE GCD(b, a % b)

Abs(x) == IF x < 0 THEN -x ELSE x

Rat(n, d) ==
    LET g == GCD(Abs(n), Abs(d))
        s == IF d < 0 THEN -1 ELSE 1
    IN  <<(s * n) \div g, (s * d) \div g>>

RInt(i) == <<i, 1>>
RAdd(a, b) == Rat(a[1] * b[2] + b[1] * a[2], a[2] * b[2])
RMul(a, b) == Rat(a[1] * b[1], a[2] * b[2])
RDiv(a, b) == Rat(a[1] * b[2], a[2] * b[1])
RLt(a, b) == a[1] * b[2] < b[1] * a[2]
RLe(a, b) == a[1] * b[2] <= b[1] * a[2]
RMin(a, b) == IF RLt(b, a) THEN b ELSE a
RMax(a, b) == IF RLt(a, b) THEN b ELSE a
RZero == RInt(0)

\* ------------------------------------------------------------- values
Runs == 1..MaxRuns
\* what run_capture returns for the ffprobe of a file: the tool reports a
\* whole number of seconds, a negative number or no number, or it fails
ProbeResults ==
    {[rc |-> 0, out |-> <<"0">>], [rc |-> 0, out |-> <<"1">>],
     [rc |-> 0, out |-> <<"-", "1">>], [rc |-> 0, out |-> <<"x">>],
     [rc |-> 1, out |-> << >>]}

\* the readings of the clock, in seconds
Clock == {0, 5}

\* the value None of last_pct
NoPct == <<-1, 1>>

\* units of the child's output stream: a line terminator, a character that
\* is not part of a progress marker, or a whole progress marker with its
\* number ("whisper_print_progress_callback: progress = <raw>%")
RawValues == {20, 150}
Units == {[k |-> "nl", raw |-> 0], [k |-> "x", raw |-> 0]}
            \cup {[k |-> "p", raw |-> v] : v \in RawValues}

SENTINEL == "[NO OUTPUT TXT FOUND]"

MAX_QUEUE == 300

VARIABLES
    files,          \* self.files: the queue
    cancel_event,   \* self.cancel_event
    worker_thread,  \* self.worker_thread: 0 is None, else the run it runs
    alive,          \* the runs whose worker thread is alive
    ui_queue,       \* self.ui_queue
    now,            \* time.time()
    w,              \* the locals of _worker, per run
    proc,           \* the child process of the current file, per run
    out_txt,        \* the files whose <out_dir>/<base>.txt exists
    merged_file,    \* merged_path on disk: whether it exists, and its blocks
    obs,            \* the widgets: lbl_status, btn_cancel, progress bars, log
    hist,           \* history of each run: what it emitted, wrote, launched
    budget,         \* the starts, the units of child output and the queue
                    \* edits still to come, whether cancel gets clicked and
                    \* whether children may exit with a non-zero status
    var_realpp,     \* self.var_realpp: the "real progress" check box
    call            \* a direct call of a module-level function: its name,
                    \* its argument and what it returned

vars == <<files, cancel_event, worker_thread, alive, ui_queue, now, w, proc,
          out_txt, merged_file, obs, hist, budget, var_realpp, call>>

\* ------------------------------------------------------------- events
\* A ui_queue entry (kind, payload), tagged with the run that put it. The two
\* elapsed times of a progress payload (and total_start, which only they use)
\* feed only the label texts and are left out with them.
Ev(kind, r) ==
    [kind |-> kind, run |-> r, idx |-> 0, n |-> 0, name |-> 0, dur |-> RZero,
     total_audio |-> RZero, total_done |-> RZero, file_done |-> RZero]

NoLocals ==
    [pc |-> "none", real_progress |-> FALSE, snap |-> <<>>, durations |-> <<>>,
     total_audio |-> RZero, merged_base |-> <<>>, merged_parts |-> <<>>,
     total_done_audio |-> RZero, speed_est |-> RZero, idx |-> 0,
     file_start |-> 0, buf |-> <<>>, last_pct |-> NoPct,
     last_done_file |-> RZero, file_elapsed |-> 0]

\* no child: nothing launched yet; after a file, the Popen object that proc
\* still names, with the exit status it holds
NoProc == [state |-> "none", pipe |-> <<>>, rc |-> 0]

\* History of a run: how it ended, what the GUI logged for it, and of the
\* latest run also what raised in it, the number of merge writes, launches,
\* probes, events and file_start events, the file in progress when cancel was
\* requested, and the last event it put.
NoHist ==
    [outcome |-> "none", report |-> "none", cause |-> "none", writes |-> 0,
     launched |-> 0, probes |-> 0, cancel_at |-> 0, n_events |-> 0,
     n_start |-> 0, last_ev |-> Ev("none", 0)]

\* no direct call
NoCall == [fn |-> "none", arg |-> << >>, ret |-> << >>, done |-> FALSE]

Scenarios ==
    {[n |-> n, starts |-> 1, out |-> 0, rp |-> FALSE, edits |-> 0,
      cancel |-> TRUE, fail |-> FALSE] : n \in 0..MaxFiles}
      \cup {[n |-> n, starts |-> 1, out |-> 1, rp |-> TRUE, edits |-> 0,
             cancel |-> TRUE, fail |-> FALSE] : n \in 0..2}
      \cup {[n |-> 1, starts |-> 1, out |-> MaxOut, rp |-> TRUE, edits |-> 0,
             cancel |-> FALSE, fail |-> FALSE]}
      \cup {[n |-> 1, starts |-> MaxRuns, out |-> 0, rp |-> FALSE, edits |-> 0,
             cancel |-> TRUE, fail |-> FALSE]}
      \cup {[n |-> 1, starts |-> 1, out |-> 0, rp |-> FALSE, edits |-> 2,
             cancel |-> TRUE, fail |-> FALSE]}

InitOf(scenarios) ==
    /\ \E sc \in scenarios :
         /\ files = [i \in 1..sc.n |-> i]
         /\ budget = [starts |-> sc.starts, out |-> sc.out, edits |-> sc.edits,
                      cancel |-> sc.cancel, fail |-> sc.fail]
         /\ var_realpp = sc.rp
    /\ call = NoCall
    /\ cancel_event = FALSE
    /\ worker_thread = 0
    /\ alive = {}
    /\ ui_queue = <<>>
    /\ now = 0
    /\ w = [r \in Runs |-> NoLocals]
    /\ proc = [r \in Runs |-> NoProc]
    /\ out_txt = {}
    /\ merged_file = [exists |-> FALSE, blocks |-> <<>>]
    /\ obs = [status |-> "Idle", btn_cancel |-> "disabled",
              total_progress |-> RZero, file_progress |-> RZero]
    /\ hist = [r \in Runs |-> NoHist]

Init == InitOf(Scenarios)

\* ------------------------------------------------------ pure helpers
\* re.split(r"[\r\n]+", buf): the segments between maximal runs of terminators
SplitLines(s) ==
    LET F[i \in 0..Len(s)] ==
            IF i = 0 THEN <<<< >>, << >>, FALSE>>
            ELSE LET p == F[i - 1]
                     u == s[i]
                 IN  IF u.k = "nl"
                     THEN IF p[3] THEN p ELSE <<Append(p[1], p[2]), << >>, TRUE>>
                     ELSE <<p[1], Append(p[2], u), FALSE>>
    IN  Append(F[Len(s)][1], F[Len(s)][2])

\* PROG_RE.search(part): the number of the first marker of the line, -1 if none
SearchLine(part) ==
    LET hits == {i \in 1..Len(part) : part[i].k = "p"}
    IN  IF hits = {} THEN -1
        ELSE part[CHOOSE i \in hits : \A j \in hits : i <= j].raw

\* pct = (raw / 100.0) if raw > 100.0 else raw; pct = max(0.0, min(100.0, pct))
ParsePct(raw) ==
    LET pct == IF raw > 100 THEN Rat(raw, 100) ELSE RInt(raw)
    IN  RMax(RZero, RMin(RInt(100), pct))

\* for part in parts[:-1]: the last matching part sets last_pct
ScanPartsFirstWins(parts, last_pct) ==
    LET hits == {i \in 1..Len(parts) : SearchLine(parts[i]) # -1}
    IN  IF last_pct # NoPct \/ hits = {} THEN last_pct
        ELSE ParsePct(SearchLine(parts[CHOOSE i \in hits :
                                           \A j \in hits : i <= j]))

RECURSIVE ScanParts(_, _)
ScanParts(parts, last_pct) ==
    IF parts = << >> THEN last_pct
    ELSE LET raw == SearchLine(Head(parts))
         IN  ScanParts(Tail(parts),
                       IF raw = -1 THEN last_pct ELSE ParsePct(raw))

\* done_file of one loop iteration
DoneFileUnclamped(dur, last_pct, file_elapsed, speed_est) ==
    IF dur > 0 /\ last_pct # NoPct
    THEN RMul(RInt(dur), RDiv(last_pct, RInt(100)))
    ELSE RMul(RInt(file_elapsed), speed_est)

DoneFile(dur, last_pct, file_elapsed, speed_est) ==
    IF dur > 0 /\ last_pct # NoPct
    THEN RMul(RInt(dur), RDiv(last_pct, RInt(100)))
    ELSE RMin(RInt(dur), RMul(RInt(file_elapsed), speed_est))

\* if done_file > last_done_file
ForwardedAlways(done_file, last_done_file) == TRUE
Forwarded(done_file, last_done_file) == RLt(last_done_file, done_file)

\* file_wall = max(0.001, time.time() - file_start)
FileWall(t, file_start) == RMax(Rat(1, 1000), RInt(t - file_start))

\* speed_est after a finished file
SpeedUpdateUnsmoothed(speed_est, dur, file_wall) ==
    IF dur > 0 THEN RDiv(RInt(dur), file_wall) ELSE speed_est

SpeedUpdate(speed_est, dur, file_wall) ==
    IF dur > 0
    THEN RAdd(RMul(speed_est, Rat(70, 100)),
              RMul(RDiv(RInt(dur), file_wall), Rat(30, 100)))
    ELSE speed_est

\* pct of _update_total / _update_file
BarPct(total, done) ==
    IF RLe(total, RZero) THEN RZero
    ELSE RMin(RInt(100), RMul(RDiv(done, total), RInt(100)))

RECURSIVE SumSeq(_)
SumSeq(s) == IF s = << >> THEN 0 ELSE Head(s) + SumSeq(Tail(s))

\* ------------------------------------------------ get_duration_seconds
\* Texts are sequences of one-character strings.
DIGITS == <<"0", "1", "2", "3", "4", "5", "6", "7", "8", "9">>
IsDigit(c) == \E i \in 1..Len(DIGITS) : DIGITS[i] = c
DigitVal(c) == (CHOOSE i \in 1..Len(DIGITS) : DIGITS[i] = c) - 1

RECURSIVE Pow10(_)
Pow10(k) == IF k = 0 THEN 1 ELSE 10 * Pow10(k - 1)

\* the number a (non-empty) sequence of digits writes
RECURSIVE DigitsVal(_)
DigitsVal(d) ==
    IF d = << >> THEN 0
    ELSE 10 * DigitsVal(SubSeq(d, 1, Len(d) - 1)) + DigitVal(d[Len(d)])

\* float(out) for texts of digits, "-", "." and characters no number holds
\* (such as "x"): an optional sign, then digits with at most one point and at
\* least one digit; anything else raises ValueError
ParseFloat(out) ==
    LET neg == out # << >> /\ Head(out) = "-"
        body == IF neg THEN Tail(out) ELSE out
        points == {i \in 1..Len(body) : body[i] = "."}
        wrong == {i \in 1..Len(body) : ~IsDigit(body[i]) /\ body[i] # "."}
        digits == SelectSeq(body, IsDigit)
        point == IF points = {} THEN Len(body) + 1 ELSE CHOOSE i \in points : TRUE
        mag == Rat(DigitsVal(digits), Pow10(Len(body) + 1 - point
                                           - (IF points = {} THEN 0 ELSE 1)))
    IN  IF wrong # {} \/ Cardinality(points) > 1 \/ digits = << >>
        THEN [ok |-> FALSE, val |-> RZero]
        ELSE [ok |-> TRUE, val |-> IF neg THEN RMul(RInt(-1), mag) ELSE mag]

Raised == [raised |-> TRUE, val |-> RZero]

\* get_duration_seconds with what run_capture returned: the exit status and
\* the stripped standard output
GetDurationSecondsIgnoresStatus(rc, out) ==
    LET v == ParseFloat(out)
    IN  IF ~v.ok THEN Raised
        ELSE [raised |-> FALSE, val |-> RMax(RZero, v.val)]

GetDurationSeconds(rc, out) ==
    IF rc # 0 THEN Raised
    ELSE LET v == ParseFloat(out)
         IN  IF ~v.ok THEN Raised
             ELSE [raised |-> FALSE, val |-> RMax(RZero, v.val)]

\* --------------------------------------------- derive_merged_basename
MERGED == <<"m", "e", "r", "g", "e", "d">>

\* base[:i] after the while loop: the longest common prefix of base and s
CommonPrefix(base, s) ==
    LET lim == IF Len(base) < Len(s) THEN Len(base) ELSE Len(s)
        same == {i \in 0..lim : \A j \in 1..i : base[j] = s[j]}
    IN  SubSeq(base, 1, CHOOSE i \in same : \A k \in same : k <= i)

\* for s in stems[1:]
RECURSIVE PrefixLoop(_, _)
PrefixLoop(base, stems) ==
    IF stems = << >> \/ base = << >> THEN base
    ELSE PrefixLoop(CommonPrefix(base, Head(stems)), Tail(stems))

\* base.rstrip("._- ")
RStrip(base) ==
    LET kept == {i \in 0..Len(base) :
                    \A j \in (i + 1)..Len(base) : base[j] \in {".", "_", "-", " "}}
    IN  SubSeq(base, 1, CHOOSE i \in kept : \A k \in kept : i <= k)

\* whether the whole of t matches ([._-]?\d+)+
MatchesDigitRuns(t) ==
    LET F[i \in 0..Len(t)] ==
            IF i = 0 THEN "start"
            ELSE LET c == t[i]
                     q == F[i - 1]
                 IN  IF q = "fail" THEN "fail"
                     ELSE IF IsDigit(c) THEN "digits"
                     ELSE IF c \in {".", "_", "-"} /\ q # "sep" THEN "sep"
                     ELSE "fail"
    IN  F[Len(t)] = "digits"

\* re.sub(r"([._-]?\d+)+$", "", base): the leftmost match is cut off
StripDigitRuns(base) ==
    LET starts == {i \in 1..Len(base) :
                      MatchesDigitRuns(SubSeq(base, i, Len(base)))}
    IN  IF starts = {} THEN base
        ELSE SubSeq(base, 1, (CHOOSE i \in starts : \A k \in starts : i <= k) - 1)

\* return base if base else "merged"
FallbackMissing(base) == base
Fallback(base) == IF base = << >> THEN MERGED ELSE base

\* derive_merged_basename on the stems of the files
DeriveMergedBasename(stems) ==
    IF stems = << >> THEN MERGED
    ELSE Fallback(RStrip(StripDigitRuns(RStrip(
             PrefixLoop(Head(stems), Tail(stems))))))

\* f.stem of the audio file with number p
StemOf(p) == <<"a", "_", DIGITS[p + 1]>>

\* ----------------------------------------------------------- GUI thread
\* self.worker_thread and self.worker_thread.is_alive()
WorkerActive == worker_thread # 0 /\ worker_thread \in alive

\* the part of _validate that reads the queue
QueueValid == files # << >>

\* what _validate finds when it looks: whether the whisper-cli path and the
\* model path exist, and whether threads, beam size and best-of are numbers
\* (everything in order, or one of the three amiss)
ValidConfig == [cli_exists |-> TRUE, model_exists |-> TRUE, numbers_ok |-> TRUE]
Configs ==
    {ValidConfig, [ValidConfig EXCEPT !.cli_exists = FALSE],
     [ValidConfig EXCEPT !.model_exists = FALSE],
     [ValidConfig EXCEPT !.numbers_ok = FALSE]}

\* _validate() returns settings rather than None
ValidateIgnoresModel(cfg) == cfg.cli_exists /\ QueueValid /\ cfg.numbers_ok
Validate(cfg) ==
    cfg.cli_exists /\ cfg.model_exists /\ QueueValid /\ cfg.numbers_ok

Unused == {r \in Runs : w[r].pc = "none"}
NextRun == CHOOSE r \in Unused : \A q \in Unused : r <= q

\* the first early return of start()
StartIgnoredUnguarded == FALSE
StartIgnored == WorkerActive

\* list(self.files): the worker gets a copy, the queue keeps its entries
QueueAfterStartConsumed == << >>
QueueAfterStart == files

\* start() past its first return, with what _validate finds: nothing
\* happens when validation fails
StartWith(cfg) ==
    IF ~Validate(cfg)
    THEN UNCHANGED vars
    ELSE /\ Unused # {} /\ budget.starts > 0
         /\ budget' = [budget EXCEPT !.starts = @ - 1]
         /\ LET r == NextRun
                 rp == var_realpp
             IN   /\ obs' = [obs EXCEPT !.btn_cancel = "normal",
                                        !.status = "Running",
                                        !.total_progress = RZero,
                                        !.file_progress = RZero]
                  /\ cancel_event' = FALSE
                  /\ worker_thread' = r
                  /\ alive' = alive \cup {r}
                  /\ w' = [w EXCEPT ![r] = [NoLocals EXCEPT
                                               !.pc = "probe",
                                               !.real_progress = rp,
                                               !.snap = files]]
                  /\ hist' = [q \in Runs |->
                                [NoHist EXCEPT !.outcome = hist[q].outcome,
                                               !.report = hist[q].report]]
         /\ files' = QueueAfterStart
         /\ UNCHANGED <<ui_queue, now, proc, out_txt, merged_file,
                        var_realpp, call>>

\* start(): ignored while a worker is alive
Start ==
    IF StartIgnored
    THEN UNCHANGED vars
    ELSE \E cfg \in Configs : StartWith(cfg)

\* -------------------------------------------------------------- the queue
\* Paths are numbers: 1, 2, ... are audio files with a supported suffix, -1
\* is a directory whose name has a supported suffix, -2 is a file whose
\* suffix is not supported.
IsDir(p) == p = -1
SuffixSupported(p) == p # -2

\* len(self.files) >= MAX_QUEUE
QueueFullOffByOne(q) == Len(q) > MAX_QUEUE
QueueFull(q) == Len(q) >= MAX_QUEUE

\* p not in self.files
InQueue(p, q) == \E i \in 1..Len(q) : q[i] = p

\* one iteration of the loop of _add_paths past the capacity check
AddOne(q, p) ==
    IF IsDir(p) THEN q
    ELSE IF ~SuffixSupported(p) THEN q
    ELSE IF InQueue(p, q) THEN q
    ELSE Append(q, p)

\* the loop of _add_paths: it breaks once the queue is full (the iterations
\* are taken one half of the paths after the other)
RECURSIVE AddLoop(_, _)
AddLoop(q, paths) ==
    IF paths = << >> \/ QueueFull(q) THEN q
    ELSE IF Len(paths) = 1 THEN AddOne(q, paths[1])
    ELSE LET h == Len(paths) \div 2
         IN  AddLoop(AddLoop(q, SubSeq(paths, 1, h)),
                     SubSeq(paths, h + 1, Len(paths)))

\* _add_paths(paths)
AddPaths(paths) ==
    /\ budget.edits > 0
    /\ budget' = [budget EXCEPT !.edits = @ - 1]
    /\ files' = AddLoop(files, paths)
    /\ UNCHANGED <<cancel_event, worker_thread, alive, ui_queue, now, w, proc,
                   out_txt, merged_file, obs, hist, var_realpp, call>>

\* self.files.pop(i) for every selected index, highest first: what is left
\* of q[lo..hi]
RECURSIVE Unselected(_, _, _, _)
Unselected(q, sel, lo, hi) ==
    IF lo > hi THEN << >>
    ELSE IF lo = hi THEN (IF lo \in sel THEN << >> ELSE <<q[lo]>>)
    ELSE LET mid == (lo + hi) \div 2
         IN  Unselected(q, sel, lo, mid) \o Unselected(q, sel, mid + 1, hi)

RemoveAt(q, sel) == Unselected(q, sel, 1, Len(q))

\* remove_selected() with the rows selected in the list box; it returns at
\* once without a selection
RemoveSelected(sel) ==
    /\ sel # {}
    /\ budget.edits > 0
    /\ budget' = [budget EXCEPT !.edits = @ - 1]
    /\ files' = RemoveAt(files, sel)
    /\ UNCHANGED <<cancel_event, worker_thread, alive, ui_queue, now, w, proc,
                   out_txt, merged_file, obs, hist, var_realpp, call>>

\* clear_queue()
ClearQueue ==
    /\ budget.edits > 0
    /\ budget' = [budget EXCEPT !.edits = @ - 1]
    /\ files' = << >>
    /\ UNCHANGED <<cancel_event, worker_thread, alive, ui_queue, now, w, proc,
                   out_txt, merged_file, obs, hist, var_realpp, call>>

\* the file a run has in progress when cancellation is first requested
InProgress(r) == IF w[r].pc \in {"poll", "read", "after"} THEN w[r].idx ELSE 0

\* cancel()
CancelToggles ==
    IF WorkerActive
    THEN /\ budget.cancel
         /\ cancel_event' = ~cancel_event
         /\ obs' = [obs EXCEPT !.btn_cancel = "disabled"]
         /\ UNCHANGED <<files, worker_thread, alive, ui_queue, now, w, proc,
                        out_txt, merged_file, hist, budget, var_realpp, call>>
    ELSE UNCHANGED vars

Cancel ==
    IF WorkerActive
    THEN /\ budget.cancel
         /\ cancel_event' = TRUE
         /\ obs' = [obs EXCEPT !.btn_cancel = "disabled"]
         /\ hist' = [r \in Runs |->
                       IF r \in alive /\ ~cancel_event
                       THEN [hist[r] EXCEPT !.cancel_at = InProgress(r)]
                       ELSE hist[r]]
         /\ UNCHANGED <<files, worker_thread, alive, ui_queue, now, w, proc,
                        out_txt, merged_file,
                   budget, var_realpp, call>>
    ELSE UNCHANGED vars

\* _finish()
Finish(o) == [o EXCEPT !.btn_cancel = "disabled", !.status = "Idle"]

\* the text logged for a "done" event
DoneReport == IF cancel_event THEN "Stopped." ELSE "All done."

\* one iteration of the loop of _poll_ui_queue; st = [o, rep]
HandleEvent(e, st) ==
    CASE e.kind = "error" ->
            [o |-> Finish(st.o), rep |-> [st.rep EXCEPT ![e.run] = "ERROR"]]
      [] e.kind = "file_start" ->
            [st EXCEPT !.o.file_progress = RZero]
      [] e.kind = "file_done" ->
            [st EXCEPT !.o.file_progress = RInt(100)]
      [] e.kind = "progress" ->
            [st EXCEPT !.o.total_progress = BarPct(e.total_audio, e.total_done),
                       !.o.file_progress = BarPct(e.dur, e.file_done)]
      [] e.kind = "done" ->
            [o |-> Finish(st.o), rep |-> [st.rep EXCEPT ![e.run] = DoneReport]]
      [] OTHER -> st

RECURSIVE Drain(_, _)
Drain(q, st) == IF q = << >> THEN st ELSE Drain(Tail(q), HandleEvent(Head(q), st))

\* _poll_ui_queue(): handles every queued event, then re-arms itself
PollUiQueue ==
    LET st == Drain(ui_queue, [o |-> obs, rep |-> [r \in Runs |-> hist[r].report]])
    IN  /\ ui_queue' = << >>
        /\ obs' = st.o
        /\ hist' = [r \in Runs |-> [hist[r] EXCEPT !.report = st.rep[r]]]
        /\ UNCHANGED <<files, cancel_event, worker_thread, alive, now, w, proc,
                       out_txt, merged_file,
                   budget, var_realpp, call>>

\* -------------------------------------------------------- worker thread
\* self.ui_queue.put(e) by run r, with the history of what r has put
PutAtHead(r, evs, h) ==
    /\ ui_queue' = evs \o ui_queue
    /\ hist' = [hist EXCEPT ![r] = [h EXCEPT
                   !.n_events = @ + Len(evs),
                   !.n_start = @ + Cardinality({i \in 1..Len(evs) :
                                                  evs[i].kind = "file_start"}),
                   !.last_ev = evs[Len(evs)]]]

Put(r, evs, h) ==
    /\ ui_queue' = ui_queue \o evs
    /\ hist' = [hist EXCEPT ![r] = [h EXCEPT
                   !.n_events = @ + Len(evs),
                   !.n_start = @ + Cardinality({i \in 1..Len(evs) :
                                                  evs[i].kind = "file_start"}),
                   !.last_ev = evs[Len(evs)]]]

NFiles(r) == Len(w[r].snap)

\* where _worker goes on after the except clause has put ("error", ...): it
\* returns
AfterErrorMerges == "merge"
AfterError == "exit"

\* a probed duration as a whole number of seconds
Seconds(v) == v[1] \div v[2]

\* durations = [get_duration_seconds(f) for f in files] and the set-up before
\* the loop; the first probe that raises ends the comprehension, and the
\* handler puts ("error", ...)
WProbe(r) ==
    /\ r \in alive /\ w[r].pc = "probe"
    /\ \E res \in [1..NFiles(r) -> ProbeResults] :
         LET got == [i \in 1..NFiles(r) |->
                        GetDurationSeconds(res[i].rc, res[i].out)]
             bad == {i \in 1..NFiles(r) : got[i].raised}
             durs == [i \in 1..NFiles(r) |-> Seconds(got[i].val)]
         IN  IF bad = {}
             THEN /\ w' = [w EXCEPT ![r] = [@ EXCEPT
                             !.pc = "loop",
                             !.durations = durs,
                             !.total_audio = RInt(SumSeq(durs)),
                             !.merged_base = DeriveMergedBasename(
                                 [i \in 1..NFiles(r) |-> StemOf(w[r].snap[i])]),
                             !.merged_parts = << >>,
                             !.total_done_audio = RZero,
                             !.speed_est = Rat(20, 100),
                             !.idx = 1]]
                  /\ hist' = [hist EXCEPT ![r].probes = NFiles(r)]
                  /\ UNCHANGED ui_queue
             ELSE /\ w' = [w EXCEPT ![r].pc = AfterError]
                  /\ Put(r, <<Ev("error", r)>>,
                         [hist[r] EXCEPT
                             !.probes = CHOOSE j \in bad : \A k \in bad : j <= k,
                             !.outcome = "failed", !.cause = "probe"])
    /\ UNCHANGED <<files, cancel_event, worker_thread, alive, now, proc,
                   out_txt, merged_file, obs,
                   budget, var_realpp, call>>

FileStartEvZeroBased(r) ==
    [Ev("file_start", r) EXCEPT !.idx = w[r].idx - 1, !.n = NFiles(r),
                                !.name = w[r].snap[w[r].idx],
                                !.dur = RInt(w[r].durations[w[r].idx])]

FileStartEv(r) ==
    [Ev("file_start", r) EXCEPT !.idx = w[r].idx, !.n = NFiles(r),
                                !.name = w[r].snap[w[r].idx],
                                !.dur = RInt(w[r].durations[w[r].idx])]

\* the cancellation check at the head of the for loop
HeadSeesCancel == cancel_event

\* the head of the for loop up to subprocess.Popen: the loop ends when the
\* snapshot is exhausted or the flag is set; else file_start is put and the
\* child is launched (Popen may raise)
WFile(r) ==
    /\ r \in alive /\ w[r].pc = "loop"
    /\ IF w[r].idx > NFiles(r)
       THEN /\ w' = [w EXCEPT ![r].pc = "merge"]
            /\ hist' = [hist EXCEPT ![r].outcome = "completed"]
            /\ UNCHANGED <<ui_queue, proc>>
       ELSE IF HeadSeesCancel
       THEN /\ w' = [w EXCEPT ![r].pc = "merge"]
            /\ hist' = [hist EXCEPT ![r].outcome = "cancelled"]
            /\ UNCHANGED <<ui_queue, proc>>
       ELSE \/ /\ w' = [w EXCEPT ![r] = [@ EXCEPT
                          !.pc = "poll", !.file_start = now, !.buf = << >>,
                          !.last_pct = NoPct, !.last_done_file = RZero]]
               /\ proc' = [proc EXCEPT ![r] = [NoProc EXCEPT !.state = "running"]]
               /\ Put(r, <<FileStartEv(r)>>,
                      [hist[r] EXCEPT !.launched = @ + 1])
            \/ /\ w' = [w EXCEPT ![r].pc = AfterError]
               /\ Put(r, <<FileStartEv(r), Ev("error", r)>>,
                      [hist[r] EXCEPT !.outcome = "failed", !.cause = "launch"])
               /\ UNCHANGED proc
    /\ UNCHANGED <<files, cancel_event, worker_thread, alive, now, out_txt,
                   merged_file, obs,
                   budget, var_realpp, call>>

\* the ("progress", ...) payload of one loop iteration
ProgressEvFileOnly(r, done_file) ==
    [Ev("progress", r) EXCEPT
        !.idx = w[r].idx, !.n = NFiles(r), !.name = w[r].snap[w[r].idx],
        !.dur = RInt(w[r].durations[w[r].idx]),
        !.total_audio = w[r].total_audio,
        !.total_done = done_file,
        !.file_done = done_file]

ProgressEv(r, done_file) ==
    [Ev("progress", r) EXCEPT
        !.idx = w[r].idx, !.n = NFiles(r), !.name = w[r].snap[w[r].idx],
        !.dur = RInt(w[r].durations[w[r].idx]),
        !.total_audio = w[r].total_audio,
        !.total_done = RAdd(w[r].total_done_audio, done_file),
        !.file_done = done_file]

\* the tail of one loop iteration: done_file, the progress event, the sleep
Sample(r, last_pct, buf, file_elapsed) ==
    LET done_file == DoneFile(w[r].durations[w[r].idx], last_pct,
                              file_elapsed, w[r].speed_est)
        fwd == Forwarded(done_file, w[r].last_done_file)
    IN  /\ w' = [w EXCEPT ![r] = [@ EXCEPT
                    !.pc = "poll", !.buf = buf, !.last_pct = last_pct,
                    !.file_elapsed = 0,
                    !.last_done_file = IF fwd THEN done_file ELSE @]]
        /\ IF fwd
           THEN Put(r, <<ProgressEv(r, done_file)>>, hist[r])
           ELSE UNCHANGED <<ui_queue, hist>>

\* the cancellation check inside the polling loop
LoopSeesCancel == cancel_event

\* proc.poll() is not None
ChildGoneAssumed(r) == TRUE
ChildGone(r) == proc[r].state # "running"

\* while proc.poll() is None: the cancellation check, then the time samples;
\* in real-progress mode the iteration goes on to proc.stdout.read(1)
WPoll(r) ==
    /\ r \in alive /\ w[r].pc = "poll"
    /\ IF ChildGone(r)
       THEN /\ w' = [w EXCEPT ![r].pc = "after"]
            /\ UNCHANGED <<proc, ui_queue, hist>>
       ELSE IF LoopSeesCancel
       THEN /\ proc' = [proc EXCEPT ![r].state = "terminated"]
            /\ w' = [w EXCEPT ![r].pc = "after"]
            /\ UNCHANGED <<ui_queue, hist>>
       ELSE IF w[r].real_progress
       THEN /\ w' = [w EXCEPT ![r] = [@ EXCEPT
                       !.pc = "read",
                       !.file_elapsed = now - w[r].file_start]]
            /\ UNCHANGED <<proc, ui_queue, hist>>
       ELSE /\ Sample(r, w[r].last_pct, w[r].buf, now - w[r].file_start)
            /\ UNCHANGED proc
    /\ UNCHANGED <<files, cancel_event, worker_thread, alive, now, out_txt,
                   merged_file, obs,
                   budget, var_realpp, call>>

\* proc.stdout.read(1) returns once a character is available or the stream
\* is at end of file
ReadReady(r) == proc[r].pipe # << >> \/ proc[r].state # "running"

\* ch = proc.stdout.read(1), the line assembly and the rest of the iteration
WRead(r) ==
    /\ r \in alive /\ w[r].pc = "read"
    /\ ReadReady(r)
    /\ IF proc[r].pipe # << >>
       THEN LET parts == SplitLines(Append(w[r].buf, Head(proc[r].pipe)))
            IN  /\ proc' = [proc EXCEPT ![r].pipe = Tail(@)]
                /\ Sample(r, ScanParts(SubSeq(parts, 1, Len(parts) - 1),
                                       w[r].last_pct),
                          parts[Len(parts)], w[r].file_elapsed)
       ELSE /\ UNCHANGED proc
            /\ Sample(r, w[r].last_pct, w[r].buf, w[r].file_elapsed)
    /\ UNCHANGED <<files, cancel_event, worker_thread, alive, now, out_txt,
                   merged_file, obs,
                   budget, var_realpp, call>>

\* the cancellation check after the polling loop
AfterSeesCancelNever == FALSE
AfterSeesCancel == cancel_event

\* whether the file whose polling loop has ended is finished: the check after
\* the loop is all that decides, the child's exit status is not looked at
FileFinishedOnSuccess(r) == ~AfterSeesCancel /\ proc[r].rc = 0
FileFinished(r) == ~AfterSeesCancel

\* the text of a file's block
BlockTextBlank(f) == IF f \in out_txt THEN "transcript" ELSE ""
BlockText(f) == IF f \in out_txt THEN "transcript" ELSE SENTINEL

\* merged_parts.append(block)
AppendBlockFirst(parts, block) == <<block>> \o parts
AppendBlock(parts, block) == Append(parts, block)

\* after the polling loop: the cancellation check, then the bookkeeping of a
\* finished file (totals, speed, block, file_done). buf, last_pct and
\* last_done_file are dead from here until the next file assigns them; the
\* child is of no concern any more, proc keeps its exit status.
WAfter(r) ==
    /\ r \in alive /\ w[r].pc = "after"
    /\ proc' = [proc EXCEPT ![r] = [NoProc EXCEPT !.rc = proc[r].rc]]
    /\ IF ~FileFinished(r)
       THEN /\ w' = [w EXCEPT ![r] = [@ EXCEPT
                        !.pc = "merge", !.buf = << >>, !.last_pct = NoPct,
                        !.last_done_file = RZero]]
            /\ hist' = [hist EXCEPT ![r].outcome = "cancelled"]
            /\ UNCHANGED ui_queue
       ELSE LET i == w[r].idx
                f == w[r].snap[i]
                dur == w[r].durations[i]
            IN  /\ w' = [w EXCEPT ![r] = [@ EXCEPT
                            !.pc = "loop",
                            !.idx = i + 1,
                            !.buf = << >>, !.last_pct = NoPct,
                            !.last_done_file = RZero,
                            !.total_done_audio = RAdd(@, RInt(dur)),
                            !.speed_est = SpeedUpdate(@, dur,
                                              FileWall(now, w[r].file_start)),
                            !.merged_parts =
                                AppendBlock(@, [base |-> f,
                                                text |-> BlockText(f)])]]
                /\ Put(r, <<[Ev("file_done", r) EXCEPT !.idx = i,
                                 !.n = NFiles(r), !.name = f]>>, hist[r])
    /\ UNCHANGED <<files, cancel_event, worker_thread, alive, now, out_txt,
                   merged_file, obs,
                   budget, var_realpp, call>>

\* merged_path.write_text(...)
WMergeSkipped(r) ==
    /\ r \in alive /\ w[r].pc = "merge"
    /\ w' = [w EXCEPT ![r].pc = "putdone"]
    /\ UNCHANGED <<files, cancel_event, worker_thread, alive, ui_queue, now,
                   proc, out_txt, merged_file, obs, hist, budget, var_realpp, call>>

WMerge(r) ==
    /\ r \in alive /\ w[r].pc = "merge"
    /\ merged_file' = [exists |-> TRUE, blocks |-> w[r].merged_parts]
    /\ hist' = [hist EXCEPT ![r].writes = @ + 1]
    /\ w' = [w EXCEPT ![r].pc = "putdone"]
    /\ UNCHANGED <<files, cancel_event, worker_thread, alive, ui_queue, now,
                   proc, out_txt, obs,
                   budget, var_realpp, call>>

\* the two puts that end a run: ("log", ...) and ("done", None)
WPutDone(r) ==
    /\ r \in alive /\ w[r].pc = "putdone"
    /\ Put(r, <<Ev("log", r), Ev("done", r)>>, hist[r])
    /\ w' = [w EXCEPT ![r].pc = "exit"]
    /\ UNCHANGED <<files, cancel_event, worker_thread, alive, now, proc,
                   out_txt, merged_file, obs,
                   budget, var_realpp, call>>

\* _worker returns and the thread ends
WExit(r) ==
    /\ r \in alive /\ w[r].pc = "exit"
    /\ alive' = alive \ {r}
    /\ w' = [w EXCEPT ![r] = [NoLocals EXCEPT !.pc = "dead"]]
    /\ proc' = [proc EXCEPT ![r] = NoProc]
    /\ UNCHANGED <<files, cancel_event, worker_thread, ui_queue, now, out_txt,
                   merged_file, obs, hist,
                   budget, var_realpp, call>>

WorkerStep(r) ==
    \/ WProbe(r) \/ WFile(r) \/ WPoll(r) \/ WRead(r)
    \/ WAfter(r) \/ WMerge(r) \/ WPutDone(r) \/ WExit(r)

\* --------------------------------------------------- child and clock
\* whisper-cli writes one unit of output (real-progress mode: stdout is a
\* pipe), once the worker has read the unit before
ChildWrite(r) ==
    /\ proc[r].state = "running" /\ w[r].real_progress
    /\ proc[r].pipe = << >> /\ budget.out > 0
    /\ budget' = [budget EXCEPT !.out = @ - 1]
    /\ \E u \in Units : proc' = [proc EXCEPT ![r].pipe = Append(@, u)]
    /\ UNCHANGED <<files, cancel_event, worker_thread, alive, ui_queue, now, w,
                   out_txt, merged_file, obs, hist, var_realpp, call>>

\* the exit statuses of whisper-cli: 0, and 1 for a failure
ExitStatuses == IF budget.fail THEN {0, 1} ELSE {0}

\* whisper-cli exits with some status, having written <base>.txt or not;
\* _worker never reads the status
ChildExit(r) ==
    /\ proc[r].state = "running"
    /\ \E wrote \in BOOLEAN, rc \in ExitStatuses :
         /\ proc' = [proc EXCEPT ![r].state = "exited", ![r].rc = rc]
         /\ out_txt' = IF wrote THEN out_txt \cup {w[r].snap[w[r].idx]}
                       ELSE out_txt
    /\ UNCHANGED <<files, cancel_event, worker_thread, alive, ui_queue, now, w,
                   merged_file, obs, hist,
                   budget, var_realpp, call>>

\* time passes
Tick ==
    /\ \E t \in Clock :
         /\ t > now /\ \A u \in Clock : u > now => t <= u
         /\ now' = t
    /\ UNCHANGED <<files, cancel_event, worker_thread, alive, ui_queue, w, proc,
                   out_txt, merged_file, obs, hist,
                   budget, var_realpp, call>>

\* a step of the worker thread
Worker == \E r \in Runs : WorkerStep(r)

\* the paths the user adds in one go: up to two of the audio files 1 and 2,
\* the directory and the unsupported file
Batches ==
    LET paths == {1, 2, -1, -2}
    IN  {<<a>> : a \in paths} \cup {<<a, b>> : a, b \in paths}

Next ==
    \/ Start
    \/ Cancel
    \/ PollUiQueue
    \/ \E paths \in Batches : AddPaths(paths)
    \/ \E sel \in SUBSET (1..Len(files)) : RemoveSelected(sel)
    \/ ClearQueue
    \/ Worker
    \/ \E r \in Runs : ChildWrite(r)
    \/ \E r \in Runs : ChildExit(r)
    \/ Tick

Spec == Init /\ [][Next]_vars

\* The worker is a thread of its own: it takes its next step whenever it has
\* one. Nothing makes the child write or exit.
FairScenarios ==
    {[n |-> 1, starts |-> 1, out |-> 1, rp |-> rp, edits |-> 0,
      cancel |-> TRUE, fail |-> FALSE] : rp \in BOOLEAN}

\* the steps of Next but the edits of the queue
FairNext ==
    \/ Start
    \/ Cancel
    \/ PollUiQueue
    \/ Worker
    \/ \E r \in Runs : ChildWrite(r)
    \/ \E r \in Runs : ChildExit(r)
    \/ Tick

FairSpec == InitOf(FairScenarios) /\ [][FairNext]_vars /\ WF_vars(Worker)

\* Batches whose children may fail: one real-progress run over two files
\* whose children write two units of output in all, and two
\* estimated-progress runs over one file.
BatchScenarios ==
    {[n |-> 2, starts |-> 1, out |-> 2, rp |-> TRUE, edits |-> 0,
      cancel |-> TRUE, fail |-> TRUE],
     [n |-> 1, starts |-> 2, out |-> 0, rp |-> FALSE, edits |-> 0,
      cancel |-> TRUE, fail |-> TRUE]}

BatchSpec == InitOf(BatchScenarios) /\ [][FairNext]_vars

\* ------------------------------------------------------- direct calls
MaxText == 3

\* the texts of at most n characters of an alphabet
RECURSIVE TextsOver(_, _)
TextsOver(alphabet, n) ==
    IF n = 0 THEN {<< >>}
    ELSE LET shorter == TextsOver(alphabet, n - 1)
         IN  shorter \cup {Append(t, c) : t \in shorter, c \in alphabet}

\* file stems: every text of letters, a digit and a separator, and some
\* longer ones with the other separators
Stems ==
    TextsOver({"a", "b", "1", "_"}, MaxText)
      \cup {<<"t", "a", "l", "k">>, <<"a", ".", "1">>, <<"a", "-", "1">>,
            <<"a", " ", "1">>, <<"a", "1", " ", ".">>, <<"a", "_", "1", "-", "2">>,
            <<"a", "_", "1", "_", "_", "2">>}

LECTURES ==
    << <<"l", "e", "c", "t", "u", "r", "e", "_", "0", "1">>,
       <<"l", "e", "c", "t", "u", "r", "e", "_", "0", "2">>,
       <<"l", "e", "c", "t", "u", "r", "e", "_", "0", "3">> >>

StemLists ==
    {<< >>, LECTURES} \cup {<<a>> : a \in Stems}
      \cup {<<a, b>> : a, b \in Stems}

\* what the probing tool can print
ToolOutputs == TextsOver({"0", "1", "-", ".", "x"}, MaxText)

Calls ==
    {[fn |-> "derive_merged_basename", arg |-> l, ret |-> << >>,
      done |-> FALSE] : l \in StemLists}
      \cup {[fn |-> "get_duration_seconds", arg |-> [rc |-> rc, out |-> out],
             ret |-> << >>, done |-> FALSE] :
                rc \in {0, 1}, out \in ToolOutputs}

\* the function is called with the argument
CallInit ==
    /\ call \in Calls
    /\ files = << >>
    /\ budget = [starts |-> 0, out |-> 0, edits |-> 0, cancel |-> FALSE,
                 fail |-> FALSE]
    /\ var_realpp = FALSE
    /\ cancel_event = FALSE
    /\ worker_thread = 0
    /\ alive = {}
    /\ ui_queue = <<>>
    /\ now = 0
    /\ w = [r \in Runs |-> NoLocals]
    /\ proc = [r \in Runs |-> NoProc]
    /\ out_txt = {}
    /\ merged_file = [exists |-> FALSE, blocks |-> <<>>]
    /\ obs = [status |-> "Idle", btn_cancel |-> "disabled",
              total_progress |-> RZero, file_progress |-> RZero]
    /\ hist = [r \in Runs |-> NoHist]

\* the function returns (or raises)
Return(fn, ret) ==
    /\ call.fn = fn /\ ~call.done
    /\ call' = [call EXCEPT !.ret = ret, !.done = TRUE]
    /\ UNCHANGED <<files, cancel_event, worker_thread, alive, ui_queue, now, w,
                   proc, out_txt, merged_file, obs, hist, budget, var_realpp>>

CallDerive ==
    Return("derive_merged_basename", DeriveMergedBasename(call.arg))

CallProbe ==
    Return("get_duration_seconds",
           GetDurationSeconds(call.arg.rc, call.arg.out))

CallNext == CallDerive \/ CallProbe

CallSpec == CallInit /\ [][CallNext]_vars

\* ------------------------------------------------ the queue at capacity
\* the paths a, a + 1, ..., b
Range(a, b) == [i \in 1..(b - a + 1) |-> a + i - 1]

\* what the user adds in one go: nearly a full queue, more than a full queue,
\* and a few paths among which are a directory, an unsupported file, a path
\* twice and a path of the first batch
LargeBatches ==
    {Range(1, MAX_QUEUE - 1), Range(1, MAX_QUEUE + 1),
     <<MAX_QUEUE + 1, -1, MAX_QUEUE + 2, MAX_QUEUE + 2, -2, 1, MAX_QUEUE + 3>>}

\* what the user selects: nothing, the first row, the last row, the first two
Selections ==
    {s \cap (1..Len(files)) : s \in {{}, {1}, {Len(files)}, {1, 2}}}

\* four edits of an empty queue, no run
QueueInit ==
    /\ files = << >>
    /\ budget = [starts |-> 0, out |-> 0, edits |-> 4, cancel |-> FALSE,
                 fail |-> FALSE]
    /\ var_realpp = FALSE
    /\ call = NoCall
    /\ cancel_event = FALSE
    /\ worker_thread = 0
    /\ alive = {}
    /\ ui_queue = <<>>
    /\ now = 0
    /\ w = [r \in Runs |-> NoLocals]
    /\ proc = [r \in Runs |-> NoProc]
    /\ out_txt = {}
    /\ merged_file = [exists |-> FALSE, blocks |-> <<>>]
    /\ obs = [status |-> "Idle", btn_cancel |-> "disabled",
              total_progress |-> RZero, file_progress |-> RZero]
    /\ hist = [r \in Runs |-> NoHist]

QueueNext ==
    \/ \E paths \in LargeBatches : AddPaths(paths)
    \/ \E sel \in Selections : RemoveSelected(sel)
    \/ ClearQueue

QueueSpec == QueueInit /\ [][QueueNext]_vars

\* ================================================================ claims
Terminal(r) == hist[r].last_ev.kind \in {"done", "error"}

\* the blocks of the first k files of run r's snapshot
IsPrefixOfSnapshot(blocks, r, k) ==
    /\ Len(blocks) = k
    /\ \A i \in 1..k : blocks[i].base = w[r].snap[i]

\* C1: when cancellation is requested while file k is in progress, the merged
\* transcript the run writes holds exactly the blocks of files 1..k-1, in
\* snapshot order.
C1_CancelledFileExcluded ==
    \A r \in Runs :
        (hist[r].cancel_at > 0 /\ hist[r].writes >= 1
            /\ w[r].pc \in {"putdone", "exit"})
        => /\ merged_file.exists
           /\ IsPrefixOfSnapshot(merged_file.blocks, r, hist[r].cancel_at - 1)

C1_Witness ==
    \E r \in Runs :
        /\ hist[r].cancel_at = 2 /\ hist[r].writes = 1 /\ w[r].pc = "exit"
        /\ Len(merged_file.blocks) = 1

\* C2: the GUI's terminal report of a run says cancelled exactly when the run
\* stopped on the cancellation flag, completed exactly when it processed every
\* file, and error exactly when it failed.
C2_ReportMatchesOutcome ==
    \A r \in Runs :
        /\ hist[r].report = "Stopped." => hist[r].outcome = "cancelled"
        /\ hist[r].report = "All done." => hist[r].outcome = "completed"
        /\ hist[r].report = "ERROR" => hist[r].outcome = "failed"

\* C3: a cancellation requested while a child is running leads to the run's
\* terminal event, in both progress modes, even if the child neither writes
\* nor exits.
C3_CancelLeadsToTerminal ==
    (cancel_event /\ WorkerActive /\ proc[worker_thread].state = "running")
        ~> (~WorkerActive \/ Terminal(worker_thread))

\* C4: a run whose duration probe fails emits one event in all, the error
\* event, launches nothing and writes no merged file.
C4_ProbeFailureIsFatal ==
    \A r \in Runs :
        hist[r].cause = "probe"
        => /\ hist[r].outcome = "failed"
           /\ hist[r].n_events = 1 /\ hist[r].last_ev.kind = "error"
           /\ hist[r].n_start = 0 /\ hist[r].launched = 0
           /\ hist[r].writes = 0
           /\ w[r].pc \in {"exit", "dead"}

C4_Witness ==
    \E r \in Runs :
        /\ hist[r].cause = "probe" /\ hist[r].probes = 2
        /\ NFiles(r) = 2 /\ ~merged_file.exists

C6_MergeOnceBeforeDone ==
    \A r \in Runs :
        /\ hist[r].writes <= 1
        /\ hist[r].last_ev.kind = "done"
           => /\ hist[r].writes = 1
              /\ hist[r].outcome \in {"completed", "cancelled"}
        /\ (w[r].pc = "exit" /\ hist[r].outcome \in {"completed", "cancelled"})
           => /\ hist[r].last_ev.kind = "done"
              /\ hist[r].writes = 1

\* a run cancelled before any file completed has written an empty merged file
C6_Witness ==
    \E r \in Runs :
        /\ hist[r].outcome = "cancelled" /\ hist[r].last_ev.kind = "done"
        /\ hist[r].n_start = 1
        /\ merged_file = [exists |-> TRUE, blocks |-> << >>]

\* C7: at most one worker is alive, and a start request made while one is
\* alive changes nothing.
C7_OneRunAtATime ==
    /\ [](Cardinality(alive) <= 1)
    /\ [][(WorkerActive /\ Start) => UNCHANGED vars]_vars

\* a worker is alive and a start request would otherwise be accepted
C7_Witness ==
    /\ WorkerActive /\ QueueValid /\ budget.starts > 0
    /\ cancel_event /\ obs.total_progress # RZero

\* C8: while a worker stays alive a set cancellation flag stays set, and a
\* cancel request made when it is already set changes nothing.
C8_CancelIrreversible ==
    /\ [][\A r \in Runs :
            (cancel_event /\ r \in alive /\ r \in alive') => cancel_event']_vars
    /\ [][(cancel_event /\ WorkerActive /\ Cancel) => UNCHANGED vars]_vars

C8_Witness ==
    \E r \in Runs :
        /\ cancel_event /\ WorkerActive /\ r \in alive
        /\ w[r].pc = "poll" /\ hist[r].cancel_at = 1

\* C9: of two successive progress events of a file, the later carries the
\* strictly larger file-done value.
C9_ProgressIncreases ==
    [][\A r \in Runs :
        (/\ hist'[r].n_events > hist[r].n_events
         /\ hist[r].last_ev.kind = "progress"
         /\ hist'[r].last_ev.kind = "progress")
        => /\ hist'[r].last_ev.idx = hist[r].last_ev.idx
           /\ RLt(hist[r].last_ev.file_done, hist'[r].last_ev.file_done)]_vars

\* a real percentage below the value already forwarded has been read
C9_Witness ==
    \E r \in Runs :
        /\ w[r].pc = "poll" /\ w[r].last_pct # NoPct
        /\ hist[r].last_ev.kind = "progress"
        /\ RLt(DoneFile(w[r].durations[w[r].idx], w[r].last_pct, 0,
                        w[r].speed_est),
               w[r].last_done_file)

\* C10: every progress event carries a total-done value of at most the sum
\* of the probed durations and a file-done value of at most the duration of
\* its file.
C10_DoneWithinTotals ==
    /\ \A i \in 1..Len(ui_queue) :
          ui_queue[i].kind = "progress"
          => /\ RLe(ui_queue[i].total_done, ui_queue[i].total_audio)
             /\ RLe(ui_queue[i].file_done, ui_queue[i].dur)
    /\ \A r \in Runs :
          hist[r].last_ev.kind = "progress"
          => /\ hist[r].last_ev.total_audio = RInt(SumSeq(w[r].durations))
             /\ hist[r].last_ev.dur = RInt(w[r].durations[hist[r].last_ev.idx])
             /\ RLe(hist[r].last_ev.total_done, hist[r].last_ev.total_audio)
             /\ RLe(hist[r].last_ev.file_done, hist[r].last_ev.dur)

\* the second file's progress reaches the whole total
C10_Witness ==
    \E r \in Runs :
        /\ hist[r].last_ev.kind = "progress" /\ hist[r].last_ev.idx = 2
        /\ hist[r].last_ev.total_done = hist[r].last_ev.total_audio
        /\ w[r].durations[1] > 0

\* C11: a file whose <base>.txt is missing after its child exited gets a
\* block holding the sentinel text (and a file whose output exists does
\* not); the file_done event and the next file follow, and a run that
\* reaches the end of its snapshot writes every block and ends by done.
C11_MissingOutputSentinel ==
    \A r \in Runs :
        /\ \A i \in 1..Len(w[r].merged_parts) :
              /\ w[r].merged_parts[i].base = w[r].snap[i]
              /\ w[r].merged_parts[i].text = SENTINEL
                    <=> w[r].snap[i] \notin out_txt
        /\ (w[r].pc = "loop" /\ w[r].idx > 1)
           => /\ hist[r].last_ev.kind = "file_done"
              /\ hist[r].last_ev.idx = w[r].idx - 1
              /\ Len(w[r].merged_parts) = w[r].idx - 1
        /\ (hist[r].outcome = "completed" /\ w[r].pc \in {"putdone", "exit"})
           => /\ merged_file = [exists |-> TRUE, blocks |-> w[r].merged_parts]
              /\ Len(merged_file.blocks) = Len(w[r].snap)
              /\ hist[r].cause = "none"
        /\ (hist[r].outcome = "completed" /\ w[r].pc = "exit")
           => hist[r].last_ev.kind = "done"

\* the first of two files left no output, the second did
C11_Witness ==
    \E r \in Runs :
        /\ hist[r].outcome = "completed" /\ w[r].pc = "exit"
        /\ Len(merged_file.blocks) = 2
        /\ merged_file.blocks[1].text = SENTINEL
        /\ merged_file.blocks[2].text = "transcript"

\* C12: after a failed launch the run's last event is the error event, put
\* right after the file_start of the file that failed; the run launches
\* nothing, writes nothing and puts no further event.
C12_LaunchFailureStopsRun ==
    /\ [](\A r \in Runs :
            hist[r].cause = "launch"
            => /\ hist[r].last_ev.kind = "error"
               /\ hist[r].outcome = "failed"
               /\ hist[r].n_start = hist[r].launched + 1
               /\ hist[r].writes = 0
               /\ proc[r].state = "none"
               /\ w[r].pc \in {"exit", "dead"})
    /\ [][\A r \in Runs :
            (hist[r].cause = "launch" /\ hist'[r].cause = "launch")
            => /\ hist'[r].n_events = hist[r].n_events
               /\ hist'[r].n_start = hist[r].n_start
               /\ hist'[r].launched = hist[r].launched
               /\ hist'[r].writes = hist[r].writes
               /\ hist'[r].last_ev = hist[r].last_ev]_vars

\* the launch of the first of two files failed
C12_Witness ==
    \E r \in Runs :
        /\ hist[r].cause = "launch" /\ hist[r].n_start = 1
        /\ w[r].pc = "exit" /\ Len(w[r].snap) = 2

\* C13: when a line with a progress marker is completed, the percentage kept
\* is the marker's raw value clamped to [0, 100].
C13_PctIsClampedRaw ==
    [][\A r \in Runs :
        (/\ w[r].pc = "read" /\ w'[r].pc = "poll"
         /\ proc[r].pipe # << >> /\ Head(proc[r].pipe).k = "nl"
         /\ SearchLine(w[r].buf) # -1)
        => w'[r].last_pct =
              RMax(RZero, RMin(RInt(100), RInt(SearchLine(w[r].buf))))]_vars

\* C14: the k-th file_start event of a run carries index k, the count and
\* the k-th name of the snapshot; the blocks are those of the first files of
\* the snapshot, in its order, and the merged file holds them in that order.
C14_SnapshotOrder ==
    /\ [](\A r \in Runs :
            /\ \A i \in 1..Len(w[r].merged_parts) :
                  w[r].merged_parts[i].base = w[r].snap[i]
            /\ w[r].pc \in {"poll", "read", "after"}
               => /\ hist[r].n_start = w[r].idx
                  /\ Len(w[r].merged_parts) = w[r].idx - 1
            /\ (r \in alive /\ hist[r].writes = 1)
               => merged_file.blocks = w[r].merged_parts)
    /\ [][\A r \in Runs :
            hist'[r].n_start > hist[r].n_start
            => LET e == ui_queue'[Len(ui_queue) + 1]
               IN  /\ hist'[r].n_start = hist[r].n_start + 1
                   /\ e.kind = "file_start" /\ e.run = r
                   /\ e.idx = hist'[r].n_start
                   /\ e.n = Len(w[r].snap)
                   /\ e.name = w[r].snap[e.idx]]_vars

\* the second file of the snapshot <<2, 1>> has started
C14_Witness ==
    \E r \in Runs :
        /\ w[r].snap = <<2, 1>> /\ hist[r].n_start = 2
        /\ hist[r].last_ev.kind = "file_start" /\ hist[r].last_ev.name = 1
        /\ Len(w[r].merged_parts) = 1

\* C15: a start takes the queue as the run's snapshot and leaves the queue as
\* it is; while the worker lives its snapshot does not change, whatever
\* happens to the queue, and every event of the run carries the length and
\* the names of the snapshot; a run that completes has a block for every
\* file of the snapshot.
C15_RunUsesSnapshot ==
    /\ [][\A r \in Runs :
            /\ (r \in alive /\ r \in alive') => w'[r].snap = w[r].snap
            /\ (r \notin alive /\ r \in alive')
               => files' = files /\ w'[r].snap = files
            /\ \A k \in (Len(ui_queue) + 1)..Len(ui_queue') :
                  LET e == ui_queue'[k]
                  IN  (e.run = r
                         /\ e.kind \in {"file_start", "progress", "file_done"})
                      => /\ e.n = Len(w[r].snap)
                         /\ e.idx \in 1..Len(w[r].snap)
                         /\ e.name = w[r].snap[e.idx]]_vars
    /\ [](\A r \in Runs :
            (hist[r].outcome = "completed" /\ r \in alive)
            => IsPrefixOfSnapshot(w[r].merged_parts, r, Len(w[r].snap)))

\* the queue was cleared and refilled while the run went on to complete
C15_Witness ==
    \E r \in Runs :
        /\ r \in alive /\ w[r].snap = <<1>> /\ files = <<2>>
        /\ budget.edits = 0
        /\ hist[r].outcome = "completed" /\ hist[r].last_ev.kind = "done"

\* the entries of paths that an add to the queue q takes: the files with a
\* supported suffix that are new to the queue, in their order, as far as
\* there is room
TakenFrom(q, paths) ==
    LET ok == {i \in 1..Len(paths) :
                  /\ ~IsDir(paths[i]) /\ SuffixSupported(paths[i])
                  /\ \A j \in 1..Len(q) : q[j] # paths[i]
                  /\ \A j \in 1..(i - 1) : paths[j] # paths[i]}
    IN  {i \in ok : Cardinality({j \in ok : j < i}) < MAX_QUEUE - Len(q)}

\* C16: the queue never holds a path twice, more than MAX_QUEUE paths, a
\* directory or an unsupported suffix; an add appends the acceptable new
\* paths in their order up to the capacity and nothing else.
C16_QueueWellFormed ==
    /\ [](/\ Len(files) <= MAX_QUEUE
          /\ \A i \in 1..Len(files) :
                /\ ~IsDir(files[i]) /\ SuffixSupported(files[i])
                /\ \A j \in 1..(i - 1) : files[j] # files[i])
    /\ [][\A paths \in LargeBatches :
            AddPaths(paths)
            => LET taken == TakenFrom(files, paths)
               IN  /\ Len(files') = Len(files) + Cardinality(taken)
                   /\ \A i \in 1..Len(files) : files'[i] = files[i]
                   /\ \A i \in taken :
                         files'[Len(files) + Cardinality({j \in taken : j <= i})]
                            = paths[i]]_vars

\* the queue is full, its last entry the second new path of a mixed batch
C16_Witness ==
    /\ Len(files) = MAX_QUEUE
    /\ files[MAX_QUEUE] = MAX_QUEUE + 2
    /\ files[1] = 2

\* C17: derive_merged_basename never returns the empty name; it returns
\* "merged" when the names share no prefix or consist of separators and
\* digits only, "lecture" for lecture_01, lecture_02, lecture_03 and "talk"
\* for talk.
C17_BasenameNeverEmpty ==
    (call.fn = "derive_merged_basename" /\ call.done)
    => /\ call.ret # << >>
       /\ call.arg = << >> => call.ret = MERGED
       /\ call.arg = LECTURES
          => call.ret = <<"l", "e", "c", "t", "u", "r", "e">>
       /\ call.arg = << <<"t", "a", "l", "k">> >>
          => call.ret = <<"t", "a", "l", "k">>
       /\ call.arg = << <<"a">>, <<"b">> >> => call.ret = MERGED
       /\ (Len(call.arg) = 2
             /\ (\/ call.arg[1] = << >> \/ call.arg[2] = << >>
                 \/ Head(call.arg[1]) # Head(call.arg[2])))
          => call.ret = MERGED
       /\ (Len(call.arg) = 1
             /\ \A i \in 1..Len(call.arg[1]) :
                   call.arg[1][i] \in {".", "_", "-", " "})
          => call.ret = MERGED
       /\ (Len(call.arg) = 1
             /\ \A i \in 1..Len(call.arg[1]) : IsDigit(call.arg[1][i]))
          => call.ret = MERGED

\* the names a and b share no prefix
C17_Witness ==
    /\ call.fn = "derive_merged_basename" /\ call.done
    /\ call.arg = << <<"a">>, <<"b">> >>
    /\ call.ret = MERGED

\* C18: for a single name derive_merged_basename returns the name without
\* its trailing separators (space, dot, hyphen, underscore) and removes
\* nothing else.
C18_SingleNameVerbatim ==
    (call.fn = "derive_merged_basename" /\ call.done /\ Len(call.arg) = 1)
    => LET trimmed == RStrip(call.arg[1])
       IN  call.ret = IF trimmed = << >> THEN MERGED ELSE trimmed

\* C19: a start that finds the whisper-cli path or the model path missing or
\* the queue empty changes nothing; a worker is created, and the
\* cancellation flag cleared, only from a non-empty queue.
C19_InvalidStartIsNoOp ==
    /\ [][\A cfg \in Configs :
            ((~cfg.cli_exists \/ ~cfg.model_exists \/ files = << >>)
               /\ StartWith(cfg))
            => UNCHANGED vars]_vars
    /\ [][(alive' # alive /\ alive \subseteq alive') => files # << >>]_vars
    /\ [][(cancel_event /\ ~cancel_event') => files # << >>]_vars

\* the queue has been emptied and a start is asked for
C19_Witness ==
    /\ ~WorkerActive /\ files = << >> /\ budget.starts > 0
    /\ budget.edits = 1

\* C20 as stated: get_duration_seconds raises exactly when the tool exits
\* non-zero or its output is not a non-negative number.
C20_ProbeFailsOnNegative ==
    (call.fn = "get_duration_seconds" /\ call.done)
    => LET v == ParseFloat(call.arg.out)
       IN  call.ret.raised
              <=> (call.arg.rc # 0 \/ ~v.ok \/ RLt(v.val, RZero))

\* C20 amended: get_duration_seconds raises exactly when the tool exits
\* non-zero or its output is no number; otherwise it returns the larger of 0
\* and the number, so 0 for a negative one.
C20_ProbeClampsNegative ==
    (call.fn = "get_duration_seconds" /\ call.done)
    => LET out == call.arg.out
           v == ParseFloat(out)
       IN  /\ call.ret.raised <=> (call.arg.rc # 0 \/ ~v.ok)
           /\ call.arg.rc # 0 => call.ret.raised
           /\ (\E i \in 1..Len(out) : out[i] = "x") => call.ret.raised
           /\ out = << >> => call.ret.raised
           /\ ~call.ret.raised
              => /\ RLe(RZero, call.ret.val)
                 /\ call.ret.val = IF RLt(v.val, RZero) THEN RZero ELSE v.val
           /\ (call.arg.rc = 0 /\ out # << >>
                 /\ \A i \in 1..Len(out) : IsDigit(out[i]))
              => call.ret = [raised |-> FALSE, val |-> RInt(DigitsVal(out))]
           /\ (call.arg.rc = 0 /\ Len(out) >= 2 /\ Head(out) = "-"
                 /\ \A i \in 2..Len(out) : IsDigit(out[i]))
              => call.ret = [raised |-> FALSE, val |-> RZero]

\* the tool exited zero and printed -1
C20_Witness ==
    /\ call.fn = "get_duration_seconds" /\ call.done
    /\ call.arg = [rc |-> 0, out |-> <<"-", "1">>]
    /\ call.ret = [raised |-> FALSE, val |-> RZero]

\* C21: the throughput estimate is 0.20 when a run enters its file loop,
\* whatever earlier runs did; a file of duration d > 0 that finishes
\* uncancelled in wall time wall (the measured time, at least a millisecond)
\* turns old into 0.7 * old + 0.3 * (d / wall), so 0.20 into 0.74 for d = 100
\* and wall = 50; a file of duration 0, a cancelled file and every other step
\* of the run leave it as it is.
C21_SpeedEstimate ==
    /\ [](SpeedUpdate(Rat(20, 100), 100, RInt(50)) = Rat(74, 100))
    /\ [][\A r \in Runs :
            LET old == w[r].speed_est
                new == w'[r].speed_est
                d == w[r].durations[w[r].idx]
                wall == FileWall(now, w[r].file_start)
            IN  /\ (w[r].pc = "probe" /\ w'[r].pc = "loop")
                   => new = Rat(20, 100)
                /\ (w[r].pc = "after" /\ w'[r].pc = "loop")
                   => new = IF d > 0
                            THEN RAdd(RMul(Rat(7, 10), old),
                                      RMul(Rat(3, 10), RDiv(RInt(d), wall)))
                            ELSE old
                /\ (w[r].pc = "after" /\ w'[r].pc = "merge") => new = old
                /\ (w[r].pc \in {"loop", "poll", "read", "merge", "putdone"})
                   => new = old]_vars

\* the first file, one second long, finished within a millisecond: the
\* estimate went from 0.20 to 0.14 + 300
C21_Witness ==
    \E r \in Runs :
        /\ w[r].pc = "loop" /\ w[r].idx = 2 /\ w[r].durations[1] = 1
        /\ w[r].speed_est = Rat(30014, 100)

\* the reference of C22: the separators, the longest common prefix of all
\* names, a text without its trailing separators, and a text without its
\* trailing run of groups of a separator followed by digits
RefSeparators == {" ", ".", "-", "_"}

RefCommonPrefix(names) ==
    LET common == {k \in 0..Len(names[1]) :
                      \A i \in 1..Len(names) :
                          /\ Len(names[i]) >= k
                          /\ \A j \in 1..k : names[i][j] = names[1][j]}
    IN  SubSeq(names[1], 1, CHOOSE k \in common : \A m \in common : m <= k)

RefTrim(t) ==
    LET ends == {k \in 0..Len(t) :
                    /\ k > 0 => t[k] \notin RefSeparators
                    /\ \A j \in (k + 1)..Len(t) : t[j] \in RefSeparators}
    IN  SubSeq(t, 1, CHOOSE k \in ends : TRUE)

RefIsGroups(t) ==
    /\ t # << >>
    /\ t[1] \in RefSeparators
    /\ IsDigit(t[Len(t)])
    /\ \A i \in 1..Len(t) : t[i] \in RefSeparators \/ IsDigit(t[i])
    /\ \A i \in 1..(Len(t) - 1) :
          t[i] \in RefSeparators => IsDigit(t[i + 1])

RefStripGroups(t) ==
    LET cuts == {k \in 0..Len(t) : k = Len(t) \/ RefIsGroups(SubSeq(t, k + 1, Len(t)))}
    IN  SubSeq(t, 1, CHOOSE k \in cuts : \A m \in cuts : k <= m)

RefBasename(names) ==
    LET base == RefTrim(RefStripGroups(RefTrim(RefCommonPrefix(names))))
    IN  IF base = << >> THEN MERGED ELSE base

\* C22: for two or more names derive_merged_basename returns the reference:
\* the longest common prefix without its trailing separators, without its
\* trailing run of groups of a separator followed by digits and again
\* without trailing separators, or "merged" if that is empty; digits at the
\* end of the prefix that no separator precedes are kept.
C22_EqualsReference ==
    (call.fn = "derive_merged_basename" /\ call.done /\ Len(call.arg) >= 2)
    => call.ret = RefBasename(call.arg)

\* run r has seen the cancellation flag set: at the head of the for loop or
\* after the polling loop (it has left the for loop), or inside the polling
\* loop (it has terminated the child and left the polling loop)
CancelSeen(r) ==
    /\ r \in alive
    /\ \/ hist[r].outcome = "cancelled"
       \/ w[r].pc = "after" /\ proc[r].state = "terminated"

\* C23: a run that has seen the cancellation flag launches no child, starts
\* no file, appends no block and puts no file_start, progress or file_done
\* event any more: it goes on to the merge write, the log and done events
\* and its end.
C23_NothingAfterCancelSeen ==
    /\ [](\A r \in Runs :
            CancelSeen(r)
            => /\ w[r].pc \in {"after", "merge", "putdone", "exit"}
               /\ proc[r].state # "running"
               /\ hist[r].cause = "none")
    /\ [][\A r \in Runs :
            (CancelSeen(r) /\ r \in alive')
            => /\ CancelSeen(r)'
               /\ hist'[r].launched = hist[r].launched
               /\ hist'[r].n_start = hist[r].n_start
               /\ w'[r].merged_parts = w[r].merged_parts
               /\ w'[r].total_done_audio = w[r].total_done_audio
               /\ \A k \in (Len(ui_queue) + 1)..Len(ui_queue') :
                     ui_queue'[k].run = r
                     => ui_queue'[k].kind \in {"log", "done"}]_vars

\* cancelled during its second file, the run has ended with the first
\* file's block only
C23_Witness ==
    \E r \in Runs :
        /\ CancelSeen(r) /\ hist[r].cancel_at = 2 /\ hist[r].n_start = 2
        /\ hist[r].last_ev.kind = "done" /\ Len(w[r].merged_parts) = 1
        /\ hist[r].launched = 2

\* C24: a run has a child only while it is in the polling loop of that
\* child's file; it leaves the polling loop only once the child is seen to
\* have exited or has been terminated on cancellation, and goes on to the
\* next file only in the first case; so when it launches the child of file
\* k + 1 the children of files 1..k have all been seen to have exited, and
\* no two children of a run are running at once.
C24_OneChildAtATime ==
    /\ [](\A r \in Runs :
            proc[r].state # "none"
            => /\ w[r].pc \in {"poll", "read", "after"}
               /\ hist[r].launched = w[r].idx
               /\ Len(w[r].merged_parts) = w[r].idx - 1)
    /\ [][\A r \in Runs :
            /\ hist'[r].launched > hist[r].launched
               => /\ proc[r].state = "none" /\ proc'[r].state = "running"
                  /\ hist[r].launched = w[r].idx - 1
                  /\ Len(w[r].merged_parts) = hist[r].launched
                  /\ w[r].idx > 1
                     => /\ hist[r].last_ev.kind = "file_done"
                        /\ hist[r].last_ev.idx = w[r].idx - 1
            /\ (w[r].pc \in {"poll", "read"} /\ w'[r].pc = "after")
               => proc'[r].state \in {"exited", "terminated"}
            /\ (w[r].pc = "after" /\ w'[r].pc = "loop")
               => proc[r].state = "exited"
            /\ (w[r].pc = "after" /\ proc[r].state = "terminated")
               => w'[r].pc \in {"after", "merge"}]_vars

\* the child of the second file is running
C24_Witness ==
    \E r \in Runs :
        /\ proc[r].state = "running" /\ w[r].idx = 2
        /\ hist[r].launched = 2 /\ Len(w[r].merged_parts) = 1

\* the protocol of C25: whether event b of a run may come right after its
\* event a (of kind "none" when the run has put nothing yet); the log event
\* that comes with done is put right before it
Follows(a, b) ==
    CASE a.kind = "none" ->
            \/ b.kind = "file_start" /\ b.idx = 1
            \/ b.kind \in {"log", "error"}
      [] a.kind = "file_start" ->
            \/ b.kind \in {"progress", "file_done"} /\ b.idx = a.idx
            \/ b.kind \in {"log", "error"}
      [] a.kind = "progress" ->
            \/ b.kind \in {"progress", "file_done"} /\ b.idx = a.idx
            \/ b.kind = "log"
      [] a.kind = "file_done" ->
            \/ b.kind = "file_start" /\ b.idx = a.idx + 1
            \/ b.kind = "log"
      [] a.kind = "log" -> b.kind = "done"
      [] OTHER -> FALSE

\* the last event of a queue that sets the file bar, 0 if none
LastBarEvent(q) ==
    LET bar == {i \in 1..Len(q) :
                   q[i].kind \in {"file_start", "progress", "file_done"}}
    IN  IF bar = {} THEN 0 ELSE CHOOSE i \in bar : \A j \in bar : j <= i

\* C25: events are appended to the end of ui_queue and the GUI handles all
\* queued events in queue order (the file bar shows what the last queued
\* file event says); the events of a run follow the protocol file_start(i),
\* progress(i)*, at most one file_done(i), file_start(i + 1), ..., ending
\* with one terminal event, done or error, after which the run puts nothing;
\* a run that ends has put its terminal event.
C25_EventProtocol ==
    /\ [][\/ ui_queue' = ui_queue
          \/ ui_queue' = << >>
          \/ /\ Len(ui_queue') > Len(ui_queue)
             /\ SubSeq(ui_queue', 1, Len(ui_queue)) = ui_queue]_vars
    /\ [][Len(ui_queue') > Len(ui_queue)
          => \A r \in Runs :
                LET put == SelectSeq(SubSeq(ui_queue', Len(ui_queue) + 1,
                                            Len(ui_queue')),
                                     LAMBDA e : e.run = r)
                    chain == <<hist[r].last_ev>> \o put
                IN  /\ \A i \in 1..Len(put) : Follows(chain[i], chain[i + 1])
                    /\ put # << >> => hist'[r].last_ev = put[Len(put)]]_vars
    /\ [][(ui_queue # << >> /\ ui_queue' = << >>)
          => LET k == LastBarEvent(ui_queue)
                 e == ui_queue[k]
             IN  /\ k = 0 => obs'.file_progress = obs.file_progress
                 /\ (k > 0 /\ e.kind = "file_start")
                    => obs'.file_progress = RZero
                 /\ (k > 0 /\ e.kind = "file_done")
                    => obs'.file_progress = RInt(100)
                 /\ (k > 0 /\ e.kind = "progress")
                    => obs'.file_progress = BarPct(e.dur, e.file_done)]_vars
    /\ [](\A r \in Runs : w[r].pc = "exit" => Terminal(r))

\* a run of two files has put file_start, progress, file_done, file_start,
\* file_done, log and done, all still queued
C25_Witness ==
    /\ Len(ui_queue) = 7
    /\ ui_queue[2].kind = "progress" /\ ui_queue[5].kind = "file_done"
    /\ ui_queue[7].kind = "done"

\* C26: in real-progress mode last_pct and the line buffer are empty when a
\* file's child is launched; a character read that is no line terminator
\* joins the buffer and leaves last_pct alone, even if it completes a
\* progress marker; a terminator read empties the buffer and sets last_pct
\* to the percentage of the line just completed if that line holds a marker,
\* overwriting any earlier one, and leaves it alone if not; nothing else
\* changes either during the file, and without real progress last_pct stays
\* empty.
C26_CompleteLinesOnly ==
    /\ [](\A r \in Runs :
            /\ \A i \in 1..Len(w[r].buf) : w[r].buf[i].k # "nl"
            /\ ~w[r].real_progress
               => w[r].last_pct = NoPct /\ w[r].buf = << >>)
    /\ [][\A r \in Runs :
            LET u == Head(proc[r].pipe)
                raw == SearchLine(w[r].buf)
            IN  /\ hist'[r].launched > hist[r].launched
                   => w'[r].buf = << >> /\ w'[r].last_pct = NoPct
                /\ (w[r].pc = "read" /\ w'[r].pc = "poll"
                      /\ proc[r].pipe # << >> /\ u.k # "nl")
                   => /\ w'[r].buf = Append(w[r].buf, u)
                      /\ w'[r].last_pct = w[r].last_pct
                /\ (w[r].pc = "read" /\ w'[r].pc = "poll"
                      /\ proc[r].pipe # << >> /\ u.k = "nl")
                   => /\ w'[r].buf = << >>
                      /\ w'[r].last_pct = IF raw = -1 THEN w[r].last_pct
                                          ELSE ParsePct(raw)
                /\ (w[r].pc \in {"poll", "read"}
                      /\ ~(w[r].pc = "read" /\ w'[r].pc = "poll"
                            /\ proc[r].pipe # << >>))
                   => /\ w'[r].buf = w[r].buf
                      /\ w'[r].last_pct = w[r].last_pct]_vars

\* a line gave 20, a later line gave 1.5 (raw 150), and the later one stands
C26_Witness ==
    \E r \in Runs :
        /\ w[r].pc = "poll" /\ w[r].last_pct = Rat(3, 2)
        /\ w[r].last_done_file = Rat(1, 5) /\ w[r].durations[1] = 1
        /\ w[r].buf = << >>

\* C27: the merged file written by a run that completed over n files holds
\* n blocks, the i-th headed by the base name of the i-th file of the
\* snapshot and holding that file's transcript (its output file exists) or
\* the sentinel; during a run merged_parts changes only by getting the block
\* of the next file of the snapshot at its end.
C27_MergedBlocks ==
    /\ [](\A r \in Runs :
            (hist[r].outcome = "completed" /\ r \in alive
               /\ hist[r].writes = 1)
            => /\ merged_file.exists
               /\ Len(merged_file.blocks) = Len(w[r].snap)
               /\ \A i \in 1..Len(merged_file.blocks) :
                     LET b == merged_file.blocks[i]
                     IN  /\ b.base = w[r].snap[i]
                         /\ b.text \in {"transcript", SENTINEL}
                         /\ b.text = "transcript" => b.base \in out_txt)
    /\ [][\A r \in Runs :
            (r \in alive /\ r \in alive')
            => LET old == w[r].merged_parts
                   new == w'[r].merged_parts
               IN  \/ new = old
                   \/ /\ Len(new) = Len(old) + 1
                      /\ SubSeq(new, 1, Len(old)) = old
                      /\ new[Len(new)].base = w[r].snap[Len(new)]]_vars

\* a run over the snapshot <<2, 1>> completed and wrote the blocks of 2 and 1
C27_Witness ==
    \E r \in Runs :
        /\ hist[r].outcome = "completed" /\ w[r].pc = "exit"
        /\ w[r].snap = <<2, 1>> /\ Len(merged_file.blocks) = 2
        /\ merged_file.blocks[1].base = 2 /\ merged_file.blocks[2].base = 1

\* C28: while a run is active (its worker is alive and has not yet put its
\* terminal event) the status is not Idle and the cancel button is disabled
\* only if cancellation has been requested.
C28_IdleOnlyWhenNoRun ==
    (WorkerActive /\ ~Terminal(worker_thread))
    => /\ obs.status # "Idle"
       /\ obs.btn_cancel = "disabled" => cancel_event

\* a - b
RSub(a, b) == RAdd(a, RMul(RInt(-1), b))

\* C29: of two progress events of a run, the later carries a total-done
\* value at least as large as the earlier, across files too: when the later
\* belongs to a later file, the done total it builds on (its total-done less
\* its file-done) is at least the earlier event's done total plus the whole
\* duration of the earlier event's file.
C29_TotalDoneNonDecreasing ==
    \A i, j \in 1..Len(ui_queue) :
        LET a == ui_queue[i]
            b == ui_queue[j]
        IN  (i < j /\ a.kind = "progress" /\ b.kind = "progress"
               /\ a.run = b.run)
            => /\ RLe(a.total_done, b.total_done)
               /\ a.idx <= b.idx
               /\ a.idx < b.idx
                  => RLe(RAdd(RSub(a.total_done, a.file_done), a.dur),
                         RSub(b.total_done, b.file_done))

\* a progress event of the first file and one of the second are queued
C29_Witness ==
    \E i, j \in 1..Len(ui_queue) :
        /\ i < j
        /\ ui_queue[i].kind = "progress" /\ ui_queue[i].idx = 1
        /\ ui_queue[j].kind = "progress" /\ ui_queue[j].idx = 2
        /\ ui_queue[i].run = ui_queue[j].run
        /\ RLt(RZero, ui_queue[i].file_done)
        /\ RLt(ui_queue[j].file_done, ui_queue[j].dur)

\* C30: when a run leaves the polling loop of a file whose child has exited,
\* with whatever status, and the flag is not set, it adds the file's whole
\* duration to the done total, appends the file's block (the transcript if
\* the output file exists, the sentinel if not), puts file_done and goes on
\* with the next file; no error event comes of an exit status, and the run
\* is not marked failed or cancelled by it.
C30_ExitStatusIgnored ==
    /\ [](\A r \in Runs : hist[r].cause \in {"none", "probe", "launch"})
    /\ [][\A r \in Runs :
            (/\ w[r].pc = "after" /\ w'[r].pc # "after"
             /\ proc[r].state = "exited" /\ ~cancel_event)
            => LET i == w[r].idx
                   f == w[r].snap[i]
               IN  /\ w'[r].pc = "loop" /\ w'[r].idx = i + 1
                   /\ w'[r].total_done_audio =
                         RAdd(w[r].total_done_audio, RInt(w[r].durations[i]))
                   /\ w'[r].merged_parts =
                         Append(w[r].merged_parts,
                                [base |-> f,
                                 text |-> IF f \in out_txt THEN "transcript"
                                          ELSE SENTINEL])
                   /\ Len(ui_queue') = Len(ui_queue) + 1
                   /\ LET e == ui_queue'[Len(ui_queue')]
                      IN  e.kind = "file_done" /\ e.run = r /\ e.idx = i
                   /\ hist'[r].outcome = "none" /\ hist'[r].cause = "none"
                   /\ proc'[r].rc = proc[r].rc]_vars

\* in the second run the child exited with status 1; the file is finished,
\* its block holds a transcript
C30_Witness ==
    /\ 2 \in alive /\ w[2].pc = "loop" /\ w[2].idx = 2
    /\ proc[2].rc = 1
    /\ hist[2].last_ev.kind = "file_done"
    /\ w[2].merged_parts = <<[base |-> 1, text |-> "transcript"]>>
    /\ w[2].total_done_audio = RInt(1)

====
